---- MODULE Spec2Model ----
(***************************************************************************)
(* Model of the resumable concurrent download coordinator of               *)
(* hf_downloader.py: ProgressTracker (the progress ledger and its file),   *)
(* AdvancedDownloader.download_single_file (the retrying fetcher) and      *)
(* AdvancedDownloader.download_repository (the dispatcher and its thread   *)
(* pool).  One process runs at a time; successive processes share the      *)
(* progress file.                                                          *)
(*                                                                         *)
(* The ProgressTracker has no lock, so every access of a pool thread to    *)
(* self.data and to the progress file is a step that interleaves with the  *)
(* steps of the other threads: the += on downloaded_size_mb is a read and  *)
(* a later store, and save_progress is open (truncate), two writes that    *)
(* serialize the live dict, and close.  What the network and the download  *)
(* directory answer (listing, HEAD request, local copy, transfer) is       *)
(* chosen by the environment at the step that asks.                        *)
(*                                                                         *)
(* Spec is the program.  SpecLedger runs the ProgressTracker operations    *)
(* alone, one caller at a time, from every stored ledger; SpecFilter runs  *)
(* the two pattern filters of download_repository on every listing and     *)
(* pattern lists.                                                          *)
(***************************************************************************)
EXTENDS Integers, Sequences, FiniteSets, TLC

(* ---------------- bounds of the model ---------------- *)
MaxRuns == 2          \* successive processes that reuse the progress file
MaxWorkers == 2       \* largest max_workers a run is started with
MaxCalls == 2         \* mark_file_completed calls counted for one path
MaxPatterns == 2      \* longest include or exclude pattern list

(* ---------------- program constants ---------------- *)
max_retries == 3      \* download_single_file(..., max_retries: int = 3)

Files == {"a", "b"}
Repos == {"r1", "r2"}
NoFile == ""
Main == 0
Workers == 1..MaxWorkers
Threads == {Main} \cup Workers

\* size of a remote file (content-length and size on disk once downloaded);
\* "b" is an empty file
Size(f) == IF f = "a" THEN 1 ELSE 0

\* the values of max_workers a run is started with: one thread, and as
\* many threads as the bound allows
WorkerCounts == {1, MaxWorkers}

\* the file lists a run can end up with after listing and filtering
Listings == {<<"a">>, <<"b">>, <<"a", "b">>}

VARIABLES
    data,        \* ProgressTracker.data of the running process
    disk,        \* the progress file
    stop,        \* AdvancedDownloader.stop_flag
    pc,          \* position of the main thread and of every pool thread
    ret,         \* where a thread continues after save_progress
    wfile,       \* the file a pool thread is fetching
    attempt,     \* loop variable of download_single_file
    slept,       \* arguments of the time.sleep calls of the running fetch
    wlocal,      \* what the check of the local copy found
    tmp,         \* value of downloaded_size_mb read by an in-flight +=
    run,         \* arguments and locals of download_repository
    queue,       \* work queue of the ThreadPoolExecutor
    fut,         \* state of the future of each file
    yielded,     \* futures as_completed has handed out
    outcome,     \* how the last run ended
    cancel,      \* ledger and fetches as they stood when stop_flag was set
    runs,        \* number of processes started so far
    marked,      \* mark_file_completed calls since the ledger was set up
    flt          \* the listing on its way through the two pattern filters

vars == <<data, disk, stop, pc, ret, wfile, attempt, slept, wlocal, tmp, run,
          queue, fut, yielded, outcome, cancel, runs, marked, flt>>

Range(s) == {s[i] : i \in 1..Len(s)}

(* ---------------- ProgressTracker ---------------- *)

\* file_details[f]['error']: the message of an exception, identified by the
\* process and the attempt that raised it
NoError == <<>>
ErrorMsg(process, i) == <<process, i>>

DefaultData ==
    [repo_id |-> "", has_all |-> FALSE, all_files |-> <<>>,
     completed_files |-> <<>>, failed_files |-> <<>>, current_file |-> NoFile,
     start_time |-> 0,
     downloaded |-> 0, details |-> [f \in Files |-> "none"],
     error |-> [f \in Files |-> NoError]]

\* json.dump writes the document piece by piece, reading the live dict
Chunk1 ==
    [repo_id |-> data.repo_id, has_all |-> data.has_all,
     all_files |-> data.all_files, completed_files |-> data.completed_files,
     failed_files |-> data.failed_files, current_file |-> data.current_file,
     start_time |-> data.start_time]

Chunk2 ==
    [downloaded |-> data.downloaded, details |-> data.details,
     error |-> data.error]

NoDisk == [exists |-> FALSE, c1 |-> <<>>, c2 |-> <<>>]

\* a progress file written by the version that did not store all_files
LegacyDisk ==
    [exists |-> TRUE,
     c1 |-> <<[repo_id |-> "r1", has_all |-> FALSE, all_files |-> <<>>,
               completed_files |-> <<"a">>, failed_files |-> <<>>,
               current_file |-> "a", start_time |-> 0]>>,
     c2 |-> <<[downloaded |-> 1,
               details |-> [f \in Files |-> IF f = "a" THEN "completed" ELSE "none"],
               error |-> [f \in Files |-> NoError]]>>]

\* a progress file left by earlier processes of this version: "a" failed
\* in one of them and was downloaded in a later one
PriorDisk ==
    [exists |-> TRUE,
     c1 |-> <<[repo_id |-> "r1", has_all |-> TRUE, all_files |-> <<"a">>,
               completed_files |-> <<"a">>, failed_files |-> <<"a">>,
               current_file |-> "a", start_time |-> 0]>>,
     c2 |-> <<[downloaded |-> 1,
               details |-> [f \in Files |-> IF f = "a" THEN "completed" ELSE "none"],
               error |-> [f \in Files |-> NoError]]>>]

DiskComplete(d) == d.exists /\ Len(d.c1) = 1 /\ Len(d.c2) = 1

Parsed(d) ==
    [repo_id |-> d.c1[1].repo_id, has_all |-> d.c1[1].has_all,
     all_files |-> d.c1[1].all_files,
     completed_files |-> d.c1[1].completed_files,
     failed_files |-> d.c1[1].failed_files,
     current_file |-> d.c1[1].current_file,
     start_time |-> d.c1[1].start_time,
     downloaded |-> d.c2[1].downloaded, details |-> d.c2[1].details,
     error |-> d.c2[1].error]

\* __init__ + load_progress: self.data after loading d. A missing file and
\* a file json.load rejects both leave the defaults.
LoadProgress(d) ==
    IF ~d.exists THEN DefaultData
    ELSE IF ~DiskComplete(d) THEN DefaultData
    ELSE Parsed(d)

Keep(s, S) == SelectSeq(s, LAMBDA f : f \in S)

\* a new task whose dict lacks the all_files key
ResetData_NoAllFiles(repo_id, files, now) ==
    [repo_id |-> repo_id, has_all |-> FALSE, all_files |-> <<>>,
     completed_files |-> <<>>, failed_files |-> <<>>, current_file |-> NoFile,
     start_time |-> now,
     downloaded |-> 0, details |-> [f \in Files |-> "none"],
     error |-> [f \in Files |-> NoError]]

\* the dict init_task builds for a new task; now is datetime.now()
ResetData(repo_id, files, now) ==
    [repo_id |-> repo_id, has_all |-> TRUE, all_files |-> files,
     completed_files |-> <<>>, failed_files |-> <<>>, current_file |-> NoFile,
     start_time |-> now,
     downloaded |-> 0, details |-> [f \in Files |-> "none"],
     error |-> [f \in Files |-> NoError]]

\* init_task that updates the file list but leaves stale entries in place
InitTask_KeepStale(d, repo_id, files, now) ==
    IF d.repo_id # repo_id \/ ~d.has_all THEN ResetData(repo_id, files, now)
    ELSE IF Range(d.all_files) # Range(files) THEN [d EXCEPT !.all_files = files]
    ELSE d

\* init_task that filters completed_files only
InitTask_StaleFailed(d, repo_id, files, now) ==
    IF d.repo_id # repo_id \/ ~d.has_all THEN ResetData(repo_id, files, now)
    ELSE IF Range(d.all_files) # Range(files)
    THEN [d EXCEPT !.all_files = files,
                   !.completed_files = Keep(d.completed_files, Range(files))]
    ELSE d

\* init_task that reads a missing all_files field as an empty list
InitTask_LegacyAsEmpty(d, repo_id, files, now) ==
    IF d.repo_id # repo_id THEN ResetData(repo_id, files, now)
    ELSE [d EXCEPT !.has_all = TRUE, !.all_files = files,
                   !.completed_files = Keep(d.completed_files, Range(files)),
                   !.failed_files = Keep(d.failed_files, Range(files))]

\* init_task without its trailing save_progress
InitTask(d, repo_id, files, now) ==
    LET current_files_set == Range(files) IN
    IF d.repo_id # repo_id THEN ResetData(repo_id, files, now)
    ELSE IF ~d.has_all THEN ResetData(repo_id, files, now)
    ELSE LET previous_files_set == Range(d.all_files)
             new_files == current_files_set \ previous_files_set
             removed_files == previous_files_set \ current_files_set
         IN IF new_files # {}
            THEN [d EXCEPT !.all_files = files,
                           !.completed_files = Keep(d.completed_files, current_files_set),
                           !.failed_files = Keep(d.failed_files, current_files_set)]
            ELSE IF removed_files # {}
            THEN [d EXCEPT !.all_files = files,
                           !.completed_files = Keep(d.completed_files, current_files_set),
                           !.failed_files = Keep(d.failed_files, current_files_set)]
            ELSE d

\* get_remaining_files that hands out every file of the list
GetRemainingFiles_All(d, all_files) == all_files

\* get_remaining_files that also leaves out the failed files
GetRemainingFiles_SkipFailed(d, all_files) ==
    SelectSeq(all_files, LAMBDA f : f \notin Range(d.completed_files)
                                    /\ f \notin Range(d.failed_files))

GetRemainingFiles(d, all_files) ==
    LET completed == Range(d.completed_files)
    IN SelectSeq(all_files, LAMBDA f : f \notin completed)


(* ---------------- state after construction ---------------- *)

NoRun == [repo |-> "", all_files |-> <<>>, remaining |-> <<>>, idx |-> 1,
          nw |-> 1, skipped |-> {}, base |-> 0]

\* no call yet; before holds the paths that were completed already
NoMarks(d) == [calls |-> [f \in Files |-> 0],
               before |-> Range(d.completed_files)]

\* no listing is being filtered
NoFilter == [at |-> "done", listed |-> <<>>, all_files |-> <<>>,
             file_patterns |-> <<>>, ignore_patterns |-> <<>>]

NoCancel == [set |-> FALSE, completed |-> {}, failed |-> {},
             inflight |-> {}, submitted |-> {}]

Init ==
    /\ data = DefaultData
    /\ disk \in {NoDisk, LegacyDisk, PriorDisk}
    /\ stop = FALSE
    /\ pc = [t \in Threads |-> "idle"]
    /\ ret = [t \in Threads |-> "idle"]
    /\ wfile = [w \in Workers |-> NoFile]
    /\ attempt = [w \in Workers |-> 0]
    /\ slept = [w \in Workers |-> <<>>]
    /\ wlocal = [w \in Workers |-> "none"]
    /\ tmp = [w \in Workers |-> 0]
    /\ run = NoRun
    /\ queue = <<>>
    /\ fut = [f \in Files |-> "none"]
    /\ yielded = {}
    /\ outcome = [kind |-> "none", ok |-> FALSE]
    /\ cancel = NoCancel
    /\ runs = 0
    /\ marked = NoMarks(DefaultData)
    /\ flt = NoFilter

Submitted == {f \in Files : fut[f] # "none"}
Finished == {f \in Files : fut[f] \in {"true", "false"}}

\* files whose fetch is past its flag check: in a transfer attempt, or in
\* the ledger update that records its result
InTransfer == {wfile[w] : w \in {v \in Workers : pc[v] \notin {"idle", "check"}}}

(* ---------------- save_progress ---------------- *)

\* the thread leaves save_progress; a pool thread whose fetch ends with it
\* completes its future
AfterSave(t) ==
    IF ret[t] \in {"ret_true", "ret_false"}
    THEN /\ pc' = [pc EXCEPT ![t] = "idle"]
         /\ fut' = [fut EXCEPT ![wfile[t]] = IF ret[t] = "ret_true" THEN "true" ELSE "false"]
         /\ wfile' = [wfile EXCEPT ![t] = NoFile]
         /\ ret' = [ret EXCEPT ![t] = "idle"]
    ELSE /\ pc' = [pc EXCEPT ![t] = ret[t]]
         /\ ret' = [ret EXCEPT ![t] = "idle"]
         /\ UNCHANGED <<fut, wfile>>

\* open(progress_file, 'w'): the file is created or truncated
Truncated == [exists |-> TRUE, c1 |-> <<>>, c2 |-> <<>>]

SaveOpen(t) ==
    /\ pc[t] = "sv_open"
    /\ disk' = Truncated
    /\ pc' = [pc EXCEPT ![t] = "sv_w1"]
    /\ UNCHANGED <<flt, marked, data, stop, ret, wfile, attempt, slept, wlocal, tmp, run, queue,
                   fut, yielded, outcome, cancel, runs>>

\* first part of the document, written at this writer's offset 0
SaveWrite1(t) ==
    /\ pc[t] = "sv_w1"
    /\ disk' = [disk EXCEPT !.c1 = <<Chunk1>>]
    /\ pc' = [pc EXCEPT ![t] = "sv_w2"]
    /\ UNCHANGED <<flt, marked, data, stop, ret, wfile, attempt, slept, wlocal, tmp, run, queue,
                   fut, yielded, outcome, cancel, runs>>

\* rest of the document, written behind the first part, and close
SaveWrite2(t) ==
    /\ pc[t] = "sv_w2"
    /\ disk' = [disk EXCEPT !.c2 = <<Chunk2>>]
    /\ AfterSave(t)
    /\ UNCHANGED <<flt, marked, data, stop, attempt, slept, wlocal, tmp, run, queue,
                   yielded, outcome, cancel, runs>>

\* a save_progress that lets the exception out: the fetch of a pool thread
\* ends with False
SaveFail_Raises(t) ==
    /\ pc[t] \in {"sv_w1", "sv_w2"}
    /\ IF t \in Workers
       THEN /\ pc' = [pc EXCEPT ![t] = "idle"]
            /\ fut' = [fut EXCEPT ![wfile[t]] = "false"]
            /\ wfile' = [wfile EXCEPT ![t] = NoFile]
            /\ ret' = [ret EXCEPT ![t] = "idle"]
       ELSE AfterSave(t)
    /\ UNCHANGED <<flt, marked, data, disk, stop, attempt, slept, wlocal, tmp, run, queue,
                   yielded, outcome, cancel, runs>>

\* json.dump raises (an I/O error, or the dict changed under the encoder):
\* save_progress logs the error and returns, the file stays as it is
SaveFail(t) ==
    /\ pc[t] \in {"sv_w1", "sv_w2"}
    /\ AfterSave(t)
    /\ UNCHANGED <<flt, marked, data, disk, stop, attempt, slept, wlocal, tmp, run, queue,
                   yielded, outcome, cancel, runs>>

(* ---------------- download_repository ---------------- *)

\* a run that saves the loaded ledger before it asks for the listing
RunListFail_SavesFirst ==
    /\ pc[Main] = "idle"
    /\ runs < MaxRuns
    /\ data' = [LoadProgress(disk) EXCEPT !.current_file = NoFile]
    /\ disk' = Truncated
    /\ runs' = runs + 1
    /\ outcome' = [kind |-> "listfail", ok |-> FALSE]
    /\ stop' = FALSE
    /\ run' = NoRun
    /\ queue' = <<>>
    /\ fut' = [f \in Files |-> "none"]
    /\ yielded' = {}
    /\ cancel' = NoCancel
    /\ marked' = NoMarks(LoadProgress(disk))
    /\ UNCHANGED <<flt, pc, ret, wfile, attempt, slept, wlocal, tmp>>

\* a new process: ProgressTracker.__init__, then list_repo_files raises
RunListFail ==
    /\ pc[Main] = "idle"
    /\ runs < MaxRuns
    /\ data' = LoadProgress(disk)
    /\ runs' = runs + 1
    /\ outcome' = [kind |-> "listfail", ok |-> FALSE]
    /\ stop' = FALSE
    /\ run' = NoRun
    /\ queue' = <<>>
    /\ fut' = [f \in Files |-> "none"]
    /\ yielded' = {}
    /\ cancel' = NoCancel
    /\ marked' = NoMarks(LoadProgress(disk))
    /\ UNCHANGED <<flt, disk, pc, ret, wfile, attempt, slept, wlocal, tmp>>

\* a new process: ProgressTracker.__init__, listing and filtering give
\* files, init_task up to the open() of its save_progress
StartRun(repo_id, files, max_workers) ==
    /\ pc[Main] = "idle"
    /\ runs < MaxRuns
    /\ data' = InitTask(LoadProgress(disk), repo_id, files, runs + 1)
    /\ disk' = Truncated
    /\ runs' = runs + 1
    /\ outcome' = [kind |-> "running", ok |-> FALSE]
    /\ stop' = FALSE
    /\ run' = [repo |-> repo_id, all_files |-> files, remaining |-> <<>>,
               idx |-> 1, nw |-> max_workers, skipped |-> {},
               base |-> InitTask(LoadProgress(disk), repo_id, files, runs + 1).downloaded]
    /\ queue' = <<>>
    /\ fut' = [f \in Files |-> "none"]
    /\ yielded' = {}
    /\ cancel' = NoCancel
    /\ pc' = [pc EXCEPT ![Main] = "sv_w1"]
    /\ ret' = [ret EXCEPT ![Main] = "remaining"]
    /\ marked' = NoMarks(InitTask(LoadProgress(disk), repo_id, files, runs + 1))
    /\ UNCHANGED <<flt, wfile, attempt, slept, wlocal, tmp>>

\* an early return that reports whether failed_files is empty
Remaining_ReportsFailed ==
    /\ pc[Main] = "remaining"
    /\ LET remaining_files == GetRemainingFiles(data, run.all_files)
       IN IF remaining_files = <<>>
          THEN /\ outcome' = [kind |-> "noop", ok |-> (data.failed_files = <<>>)]
               /\ pc' = [pc EXCEPT ![Main] = "idle"]
               /\ run' = run
          ELSE /\ run' = [run EXCEPT !.remaining = remaining_files, !.idx = 1]
               /\ pc' = [pc EXCEPT ![Main] = "submit"]
               /\ outcome' = outcome
    /\ UNCHANGED <<flt, marked, data, disk, stop, ret, wfile, attempt, slept, wlocal,
                   tmp, queue, fut, yielded, cancel, runs>>

\* get_remaining_files and the early return when nothing is left
Remaining ==
    /\ pc[Main] = "remaining"
    /\ LET remaining_files == GetRemainingFiles(data, run.all_files)
       IN IF remaining_files = <<>>
          THEN /\ outcome' = [kind |-> "noop", ok |-> TRUE]
               /\ pc' = [pc EXCEPT ![Main] = "idle"]
               /\ run' = run
          ELSE /\ run' = [run EXCEPT !.remaining = remaining_files, !.idx = 1]
               /\ pc' = [pc EXCEPT ![Main] = "submit"]
               /\ outcome' = outcome
    /\ UNCHANGED <<flt, marked, data, disk, stop, ret, wfile, attempt, slept, wlocal, tmp, queue,
                   fut, yielded, cancel, runs>>

\* one iteration of the submit loop
Submit ==
    /\ pc[Main] = "submit"
    /\ IF stop
       THEN /\ pc' = [pc EXCEPT ![Main] = "collect"]
            /\ UNCHANGED <<queue, fut, run>>
       ELSE /\ queue' = Append(queue, run.remaining[run.idx])
            /\ fut' = [fut EXCEPT ![run.remaining[run.idx]] = "pending"]
            /\ run' = [run EXCEPT !.idx = run.idx + 1]
            /\ pc' = [pc EXCEPT ![Main] =
                         IF run.idx = Len(run.remaining) THEN "collect" ELSE "submit"]
    /\ UNCHANGED <<flt, marked, data, disk, stop, ret, wfile, attempt, slept, wlocal, tmp,
                   yielded, outcome, cancel, runs>>

\* one iteration of the as_completed loop, up to the save_progress of
\* set_current_file
Collect ==
    /\ pc[Main] = "collect"
    /\ IF yielded = Submitted
       THEN /\ pc' = [pc EXCEPT ![Main] = "shutdown"]
            /\ UNCHANGED <<data, ret, yielded>>
       ELSE \E f \in Finished \ yielded :
              IF stop
              THEN /\ pc' = [pc EXCEPT ![Main] = "shutdown"]
                   /\ UNCHANGED <<data, ret, yielded>>
              ELSE /\ yielded' = yielded \cup {f}
                   /\ data' = [data EXCEPT !.current_file = f]
                   /\ pc' = [pc EXCEPT ![Main] = "sv_open"]
                   /\ ret' = [ret EXCEPT ![Main] = "collect"]
    /\ UNCHANGED <<flt, marked, disk, stop, wfile, attempt, slept, wlocal, tmp, run, queue, fut,
                   outcome, cancel, runs>>

\* a final result computed from the completed count instead of failed
Shutdown_ByCompleted ==
    /\ pc[Main] = "shutdown"
    /\ queue = <<>>
    /\ \A w \in Workers : pc[w] = "idle"
    /\ outcome' = [kind |-> "dispatched",
                   ok |-> (Len(data.completed_files) = Len(run.all_files))]
    /\ pc' = [pc EXCEPT ![Main] = "idle"]
    /\ UNCHANGED <<flt, marked, data, disk, stop, ret, wfile, attempt, slept, wlocal, tmp, run,
                   queue, fut, yielded, cancel, runs>>

\* the executor is shut down (every submitted task has run), then the
\* final statistics and the return value
Shutdown ==
    /\ pc[Main] = "shutdown"
    /\ queue = <<>>
    /\ \A w \in Workers : pc[w] = "idle"
    /\ outcome' = [kind |-> "dispatched", ok |-> (Len(data.failed_files) = 0)]
    /\ pc' = [pc EXCEPT ![Main] = "idle"]
    /\ UNCHANGED <<flt, marked, data, disk, stop, ret, wfile, attempt, slept, wlocal, tmp, run,
                   queue, fut, yielded, cancel, runs>>

\* stop_download
StopDownload ==
    /\ pc[Main] # "idle"
    /\ ~stop
    /\ stop' = TRUE
    /\ cancel' = [set |-> TRUE,
                  completed |-> Range(data.completed_files),
                  failed |-> Range(data.failed_files),
                  inflight |-> InTransfer,
                  submitted |-> Submitted]
    /\ UNCHANGED <<flt, marked, data, disk, pc, ret, wfile, attempt, slept, wlocal, tmp, run,
                   queue, fut, yielded, outcome, runs>>

\* the process dies
Crash ==
    /\ pc[Main] # "idle"
    /\ pc' = [t \in Threads |-> "idle"]
    /\ ret' = [t \in Threads |-> "idle"]
    /\ wfile' = [w \in Workers |-> NoFile]
    /\ attempt' = [w \in Workers |-> 0]
    /\ slept' = [w \in Workers |-> <<>>]
    /\ wlocal' = [w \in Workers |-> "none"]
    /\ tmp' = [w \in Workers |-> 0]
    /\ queue' = <<>>
    /\ fut' = [f \in Files |-> "none"]
    /\ yielded' = {}
    /\ run' = NoRun
    /\ cancel' = NoCancel
    /\ stop' = FALSE
    /\ outcome' = [kind |-> "crashed", ok |-> FALSE]
    /\ marked' = NoMarks(data)
    /\ UNCHANGED <<flt, data, disk, runs>>

(* ---------------- download_single_file ---------------- *)

RECURSIVE Pow2(_)
Pow2(n) == IF n = 0 THEN 1 ELSE 2 * Pow2(n - 1)

\* a pool that starts a thread for every queued task, whatever max_workers
WorkerStart_AnyThread(w) ==
    /\ pc[Main] # "idle"
    /\ pc[w] = "idle"
    /\ \A v \in Workers : v < w => pc[v] # "idle"
    /\ queue # <<>>
    /\ wfile' = [wfile EXCEPT ![w] = Head(queue)]
    /\ queue' = Tail(queue)
    /\ attempt' = [attempt EXCEPT ![w] = 0]
    /\ slept' = [slept EXCEPT ![w] = <<>>]
    /\ wlocal' = [wlocal EXCEPT ![w] = "none"]
    /\ pc' = [pc EXCEPT ![w] = "check"]
    /\ UNCHANGED <<flt, marked, data, disk, stop, ret, tmp, run, fut, yielded,
                   outcome, cancel, runs>>

\* a fetch that gives the file up when the probe of its local copy fails
WorkerStart_ProbeFailGivesUp(w) ==
    /\ w <= run.nw
    /\ pc[Main] # "idle"
    /\ pc[w] = "idle"
    /\ \A v \in Workers : v < w => pc[v] # "idle"
    /\ queue # <<>>
    /\ LET f == Head(queue)
       IN /\ wfile' = [wfile EXCEPT ![w] = f]
          /\ queue' = Tail(queue)
          /\ attempt' = [attempt EXCEPT ![w] = 0]
          /\ slept' = [slept EXCEPT ![w] = <<>>]
          /\ \E found \in {"none", "match", "probefail"} :
                /\ wlocal' = [wlocal EXCEPT ![w] = found]
                /\ IF found = "match" /\ Size(f) > 0
                   THEN /\ pc' = [pc EXCEPT ![w] = "mc"]
                        /\ run' = [run EXCEPT !.skipped = run.skipped \cup {f}]
                   ELSE /\ pc' = [pc EXCEPT ![w] =
                                   IF found = "probefail" THEN "mf" ELSE "check"]
                        /\ run' = run
    /\ UNCHANGED <<flt, marked, data, disk, stop, ret, tmp, fut, yielded,
                   outcome, cancel, runs>>

\* a pool thread takes the next task (the pool's threads are
\* interchangeable: the free thread with the lowest number takes it) and
\* checks an existing local copy against the content-length of the HEAD
\* request: found is "match" when a local copy exists and has the size the
\* probe reports, "probefail" when a local copy exists and get_file_info
\* caught an exception (it returns size_bytes 0), "none" when there is no
\* local copy or it has another size
WorkerStart(w) ==
    /\ w <= run.nw
    /\ pc[Main] # "idle"
    /\ pc[w] = "idle"
    /\ \A v \in Workers : v < w => pc[v] # "idle"
    /\ queue # <<>>
    /\ LET f == Head(queue)
       IN /\ wfile' = [wfile EXCEPT ![w] = f]
          /\ queue' = Tail(queue)
          /\ attempt' = [attempt EXCEPT ![w] = 0]
          /\ slept' = [slept EXCEPT ![w] = <<>>]
          /\ \E found \in {"none", "match", "probefail"} :
                /\ wlocal' = [wlocal EXCEPT ![w] = found]
                /\ IF found = "match" /\ Size(f) > 0
                   THEN /\ pc' = [pc EXCEPT ![w] = "mc"]
                        /\ run' = [run EXCEPT !.skipped = run.skipped \cup {f}]
                   ELSE /\ pc' = [pc EXCEPT ![w] = "check"]
                        /\ run' = run
    /\ UNCHANGED <<flt, marked, data, disk, stop, ret, tmp, fut, yielded,
                   outcome, cancel, runs>>

\* a retry loop that tests the flag only before the first attempt
WorkerCheck_FirstOnly(w) ==
    /\ pc[w] = "check"
    /\ wlocal' = [wlocal EXCEPT ![w] = "none"]
    /\ IF stop /\ attempt[w] = 0
       THEN /\ pc' = [pc EXCEPT ![w] = "idle"]
            /\ fut' = [fut EXCEPT ![wfile[w]] = "false"]
            /\ wfile' = [wfile EXCEPT ![w] = NoFile]
            /\ attempt' = [attempt EXCEPT ![w] = 0]
            /\ slept' = [slept EXCEPT ![w] = <<>>]
       ELSE /\ pc' = [pc EXCEPT ![w] = "xfer"]
            /\ UNCHANGED <<fut, wfile, attempt, slept>>
    /\ UNCHANGED <<flt, marked, data, disk, stop, ret, tmp, run, queue, yielded,
                   outcome, cancel, runs>>

\* a retry loop that records a cancelled fetch as failed
WorkerCheck_MarksFailed(w) ==
    /\ pc[w] = "check"
    /\ wlocal' = [wlocal EXCEPT ![w] = "none"]
    /\ IF stop
       THEN /\ pc' = [pc EXCEPT ![w] = "mf"]
       ELSE /\ pc' = [pc EXCEPT ![w] = "xfer"]
    /\ UNCHANGED <<flt, marked, data, disk, stop, ret, wfile, attempt, slept, tmp, run,
                   queue, fut, yielded, outcome, cancel, runs>>

\* top of the retry loop: the stop_flag test
WorkerCheck(w) ==
    /\ pc[w] = "check"
    /\ wlocal' = [wlocal EXCEPT ![w] = "none"]
    /\ IF stop
       THEN /\ pc' = [pc EXCEPT ![w] = "idle"]
            /\ fut' = [fut EXCEPT ![wfile[w]] = "false"]
            /\ wfile' = [wfile EXCEPT ![w] = NoFile]
            /\ attempt' = [attempt EXCEPT ![w] = 0]
            /\ slept' = [slept EXCEPT ![w] = <<>>]
       ELSE /\ pc' = [pc EXCEPT ![w] = "xfer"]
            /\ UNCHANGED <<fut, wfile, attempt, slept>>
    /\ UNCHANGED <<flt, marked, data, disk, stop, ret, tmp, run, queue, yielded,
                   outcome, cancel, runs>>

\* hf_hub_download returns: on to mark_file_completed
TransferOk(w) ==
    /\ pc[w] = "xfer"
    /\ pc' = [pc EXCEPT ![w] = "mc"]
    /\ attempt' = [attempt EXCEPT ![w] = 0]
    /\ slept' = [slept EXCEPT ![w] = <<>>]
    /\ UNCHANGED <<flt, marked, data, disk, stop, ret, wfile, wlocal, tmp, run, queue,
                   fut, yielded, outcome, cancel, runs>>

\* a retry loop without a limit
TransferFail_NoLimit(w) ==
    /\ pc[w] = "xfer"
    /\ pc' = [pc EXCEPT ![w] = "check"]
    /\ UNCHANGED <<flt, marked, data, disk, stop, ret, wfile, attempt, slept,
                   wlocal, tmp, run, queue, fut, yielded, outcome, cancel, runs>>

\* hf_hub_download raises: the last attempt goes on to mark_file_failed
\* with its error_msg, any other one sleeps and starts the next iteration
TransferFail(w) ==
    /\ pc[w] = "xfer"
    /\ IF attempt[w] = max_retries - 1
       THEN /\ pc' = [pc EXCEPT ![w] = "mf"]
            /\ UNCHANGED <<attempt, slept>>
       ELSE /\ pc' = [pc EXCEPT ![w] = "check"]
            /\ slept' = [slept EXCEPT ![w] = Append(@, Pow2(attempt[w]))]
            /\ attempt' = [attempt EXCEPT ![w] = attempt[w] + 1]
    /\ UNCHANGED <<flt, marked, data, disk, stop, ret, wfile, wlocal, tmp, run, queue,
                   fut, yielded, outcome, cancel, runs>>

(* ---------------- mark_file_completed / mark_file_failed ---------------- *)

\* the membership test, the append and the read of downloaded_size_mb += size_mb
MarkCompletedAppend(w) ==
    /\ pc[w] = "mc"
    /\ IF wfile[w] \notin Range(data.completed_files)
       THEN /\ data' = [data EXCEPT !.completed_files = Append(@, wfile[w])]
            /\ tmp' = [tmp EXCEPT ![w] = data.downloaded]
            /\ pc' = [pc EXCEPT ![w] = "mc_wr"]
            /\ ret' = ret
       ELSE /\ pc' = [pc EXCEPT ![w] = "sv_open"]
            /\ ret' = [ret EXCEPT ![w] = "ret_true"]
            /\ UNCHANGED <<data, tmp>>
    /\ wlocal' = [wlocal EXCEPT ![w] = "none"]
    /\ marked' = [marked EXCEPT !.calls[wfile[w]] = @ + 1]
    /\ UNCHANGED <<flt, disk, stop, wfile, attempt, slept, run, queue, fut,
                   yielded, outcome, cancel, runs>>

\* downloaded_size_mb += size_mb, the store; then the file_details entry
MarkCompletedWrite(w) ==
    /\ pc[w] = "mc_wr"
    /\ data' = [data EXCEPT !.downloaded = tmp[w] + Size(wfile[w]),
                            !.details[wfile[w]] = "completed",
                            !.error[wfile[w]] = NoError]
    /\ tmp' = [tmp EXCEPT ![w] = 0]
    /\ pc' = [pc EXCEPT ![w] = "sv_open"]
    /\ ret' = [ret EXCEPT ![w] = "ret_true"]
    /\ UNCHANGED <<flt, marked, disk, stop, wfile, attempt, slept, wlocal, run, queue, fut,
                   yielded, outcome, cancel, runs>>

\* mark_file_failed without its trailing save_progress
MarkFileFailed(d, filename, error) ==
    IF filename \notin Range(d.failed_files)
    THEN [d EXCEPT !.failed_files = Append(@, filename),
                   !.details[filename] = "failed",
                   !.error[filename] = error]
    ELSE d

\* mark_file_failed(filename, error_msg) with the message of the attempt
\* that has just failed
MarkFailed(w) ==
    /\ pc[w] = "mf"
    /\ data' = MarkFileFailed(data, wfile[w], ErrorMsg(runs, attempt[w]))
    /\ pc' = [pc EXCEPT ![w] = "sv_open"]
    /\ ret' = [ret EXCEPT ![w] = "ret_false"]
    /\ attempt' = [attempt EXCEPT ![w] = 0]
    /\ slept' = [slept EXCEPT ![w] = <<>>]
    /\ UNCHANGED <<flt, marked, disk, stop, wfile, wlocal, tmp, run, queue, fut,
                   yielded, outcome, cancel, runs>>

(* ---------------- the system ---------------- *)

Next ==
    \/ RunListFail
    \/ \E repo_id \in Repos, files \in Listings, max_workers \in WorkerCounts :
          StartRun(repo_id, files, max_workers)
    \/ Remaining
    \/ Submit
    \/ Collect
    \/ Shutdown
    \/ StopDownload
    \/ Crash
    \/ \E t \in Threads : SaveOpen(t)
    \/ \E t \in Threads : SaveWrite1(t)
    \/ \E t \in Threads : SaveWrite2(t)
    \/ \E t \in Threads : SaveFail(t)
    \/ \E w \in Workers : WorkerStart(w)
    \/ \E w \in Workers : WorkerCheck(w)
    \/ \E w \in Workers : TransferOk(w)
    \/ \E w \in Workers : TransferFail(w)
    \/ \E w \in Workers : MarkCompletedAppend(w)
    \/ \E w \in Workers : MarkCompletedWrite(w)
    \/ \E w \in Workers : MarkFailed(w)

Spec == Init /\ [][Next]_vars

\* the steps of the main thread and of a pool thread inside a run
MainStep ==
    \/ Remaining
    \/ Submit
    \/ Collect
    \/ Shutdown
    \/ SaveOpen(Main) \/ SaveWrite1(Main) \/ SaveWrite2(Main) \/ SaveFail(Main)

WorkerStep(w) ==
    \/ WorkerStart(w)
    \/ WorkerCheck(w)
    \/ TransferOk(w)
    \/ TransferFail(w)
    \/ MarkCompletedAppend(w)
    \/ MarkCompletedWrite(w)
    \/ MarkFailed(w)
    \/ SaveOpen(w) \/ SaveWrite1(w) \/ SaveWrite2(w) \/ SaveFail(w)

\* every thread that can take a step gets to take one: the threads are
\* scheduled by the operating system, hf_hub_download returns or raises,
\* and time.sleep returns.  Starting a process, stop_download and the death
\* of the process are up to the environment.
Fairness ==
    /\ WF_vars(MainStep)
    /\ \A w \in Workers : WF_vars(WorkerStep(w))

\* the last process the bound allows is about to start
InitFair ==
    /\ data = DefaultData
    /\ disk \in {NoDisk, LegacyDisk, PriorDisk}
    /\ stop = FALSE
    /\ pc = [t \in Threads |-> "idle"]
    /\ ret = [t \in Threads |-> "idle"]
    /\ wfile = [w \in Workers |-> NoFile]
    /\ attempt = [w \in Workers |-> 0]
    /\ slept = [w \in Workers |-> <<>>]
    /\ wlocal = [w \in Workers |-> "none"]
    /\ tmp = [w \in Workers |-> 0]
    /\ run = NoRun
    /\ queue = <<>>
    /\ fut = [f \in Files |-> "none"]
    /\ yielded = {}
    /\ outcome = [kind |-> "none", ok |-> FALSE]
    /\ cancel = NoCancel
    /\ runs = MaxRuns - 1
    /\ marked = NoMarks(DefaultData)
    /\ flt = NoFilter

SpecFair == InitFair /\ [][Next]_vars /\ Fairness

TypeOK ==
    /\ stop \in BOOLEAN
    /\ runs \in 0..MaxRuns
    /\ yielded \subseteq Files

(* ---------------- the ledger on its own ---------------- *)

\* mark_file_completed that appends and adds without the membership test
MarkFileCompleted_NoTest(d, filename, size_mb) ==
    [d EXCEPT !.completed_files = Append(@, filename),
              !.downloaded = @ + size_mb,
              !.details[filename] = "completed",
              !.error[filename] = NoError]

\* mark_file_completed without its trailing save_progress, run by one
\* caller at a time
MarkFileCompleted(d, filename, size_mb) ==
    IF filename \notin Range(d.completed_files)
    THEN [d EXCEPT !.completed_files = Append(@, filename),
                   !.downloaded = @ + size_mb,
                   !.details[filename] = "completed",
                   !.error[filename] = NoError]
    ELSE d

\* set_current_file without its trailing save_progress
SetCurrentFile(d, filename) == [d EXCEPT !.current_file = filename]

\* completed_files / failed_files of a stored ledger
LedgerLists == {<<>>, <<"a">>, <<"b">>, <<"a", "b">>, <<"b", "a">>}

\* a ledger of a task on both files, as a second process finds it after
\* init_task:
\* any entries in the two lists (a path can be in both, and the size can
\* lag behind or run ahead of the completed files)
InitLedger ==
    /\ \E c \in LedgerLists, fl \in LedgerLists, dl \in 0..1 :
          data = [ResetData("r1", <<"a", "b">>, 1) EXCEPT
                    !.completed_files = c,
                    !.failed_files = fl,
                    !.downloaded = dl,
                    !.details = [f \in Files |->
                                   IF f \in Range(c) THEN "completed"
                                   ELSE IF f \in Range(fl) THEN "failed"
                                   ELSE "none"],
                    !.error = [f \in Files |->
                                 IF f \in Range(fl) \ Range(c)
                                 THEN ErrorMsg(1, max_retries - 1) ELSE NoError]]
    /\ disk = [exists |-> TRUE, c1 |-> <<Chunk1>>, c2 |-> <<Chunk2>>]
    /\ stop = FALSE
    /\ pc = [t \in Threads |-> "idle"]
    /\ ret = [t \in Threads |-> "idle"]
    /\ wfile = [w \in Workers |-> NoFile]
    /\ attempt = [w \in Workers |-> 0]
    /\ slept = [w \in Workers |-> <<>>]
    /\ wlocal = [w \in Workers |-> "none"]
    /\ tmp = [w \in Workers |-> 0]
    /\ run = [NoRun EXCEPT !.repo = "r1", !.all_files = <<"a", "b">>,
                           !.base = data.downloaded]
    /\ queue = <<>>
    /\ fut = [f \in Files |-> "none"]
    /\ yielded = {}
    /\ outcome = [kind |-> "running", ok |-> FALSE]
    /\ cancel = NoCancel
    /\ runs = 2
    /\ marked = NoMarks(data)
    /\ flt = NoFilter

\* save_progress run to its end by the only caller: the whole document is
\* written, or the write fails after the open
Persist ==
    \E written \in BOOLEAN :
        disk' = IF written
                THEN [exists |-> TRUE, c1 |-> <<Chunk1'>>, c2 |-> <<Chunk2'>>]
                ELSE Truncated

ApiMarkCompleted(f) ==
    /\ marked.calls[f] < MaxCalls
    /\ data' = MarkFileCompleted(data, f, Size(f))
    /\ marked' = [marked EXCEPT !.calls[f] = @ + 1]
    /\ Persist
    /\ UNCHANGED <<flt, stop, pc, ret, wfile, attempt, slept, wlocal, tmp, run,
                   queue, fut, yielded, outcome, cancel, runs>>

ApiMarkFailed(f) ==
    /\ data' = MarkFileFailed(data, f, ErrorMsg(runs, max_retries - 1))
    /\ Persist
    /\ UNCHANGED <<flt, stop, pc, ret, wfile, attempt, slept, wlocal, tmp, run,
                   queue, fut, yielded, outcome, cancel, runs, marked>>

ApiSetCurrent(f) ==
    /\ data' = SetCurrentFile(data, f)
    /\ Persist
    /\ UNCHANGED <<flt, stop, pc, ret, wfile, attempt, slept, wlocal, tmp, run,
                   queue, fut, yielded, outcome, cancel, runs, marked>>

NextLedger ==
    \/ \E f \in Files : ApiMarkCompleted(f)
    \/ \E f \in Files : ApiMarkFailed(f)
    \/ \E f \in Files : ApiSetCurrent(f)

SpecLedger == InitLedger /\ [][NextLedger]_vars

(* ---------------- the pattern filters on their own ---------------- *)

\* repository paths and glob patterns, as sequences of characters:
\* a.j, d/a, b and *.j, *a, ?, d/*
Names == {<<"a", ".", "j">>, <<"d", "/", "a">>, <<"b">>}
Patterns == {<<"*", ".", "j">>, <<"*", "a">>, <<"?">>, <<"d", "/", "*">>}

\* fnmatch.fnmatch(name, pat) for patterns of literals, * and ?: * matches
\* any run of characters ("/" included), ? any one character
RECURSIVE Match(_, _)
Match(name, pat) ==
    IF pat = <<>> THEN name = <<>>
    ELSE IF Head(pat) = "*"
    THEN Match(name, Tail(pat)) \/ (name # <<>> /\ Match(Tail(name), pat))
    ELSE IF name = <<>> THEN FALSE
    ELSE IF Head(pat) = "?" THEN Match(Tail(name), Tail(pat))
    ELSE Head(name) = Head(pat) /\ Match(Tail(name), Tail(pat))

\* an include filter that keeps the files matching every pattern
IncludeFilter_AllPatterns(all_files, file_patterns) ==
    IF file_patterns # <<>>
    THEN SelectSeq(all_files,
                   LAMBDA file : \A i \in 1..Len(file_patterns) :
                                    Match(file, file_patterns[i]))
    ELSE all_files

\* `if file_patterns:` and its loop; None and the empty list both skip it
\* (<<>> stands for both: main passes None or a non-empty list)
IncludeFilter(all_files, file_patterns) ==
    IF file_patterns # <<>>
    THEN SelectSeq(all_files,
                   LAMBDA file : \E i \in 1..Len(file_patterns) :
                                    Match(file, file_patterns[i]))
    ELSE all_files

\* `if ignore_patterns:` and its loop
ExcludeFilter(all_files, ignore_patterns) ==
    IF ignore_patterns # <<>>
    THEN SelectSeq(all_files,
                   LAMBDA file : ~(\E i \in 1..Len(ignore_patterns) :
                                      Match(file, ignore_patterns[i])))
    ELSE all_files

FilterFiles(all_files, file_patterns, ignore_patterns) ==
    ExcludeFilter(IncludeFilter(all_files, file_patterns), ignore_patterns)

\* what list_repo_files can return: the paths of a repository, each once
NameLists ==
    {l \in UNION {[1..n -> Names] : n \in 0..Cardinality(Names)} :
        \A i, j \in 1..Len(l) : i # j => l[i] # l[j]}

PatternLists == UNION {[1..n -> Patterns] : n \in 0..MaxPatterns}

InitFilter ==
    /\ \E l \in NameLists, inc \in PatternLists, exc \in PatternLists :
          flt = [at |-> "include", listed |-> l, all_files |-> l,
                 file_patterns |-> inc, ignore_patterns |-> exc]
    /\ data = DefaultData
    /\ disk = NoDisk
    /\ stop = FALSE
    /\ pc = [t \in Threads |-> "idle"]
    /\ ret = [t \in Threads |-> "idle"]
    /\ wfile = [w \in Workers |-> NoFile]
    /\ attempt = [w \in Workers |-> 0]
    /\ slept = [w \in Workers |-> <<>>]
    /\ wlocal = [w \in Workers |-> "none"]
    /\ tmp = [w \in Workers |-> 0]
    /\ run = NoRun
    /\ queue = <<>>
    /\ fut = [f \in Files |-> "none"]
    /\ yielded = {}
    /\ outcome = [kind |-> "running", ok |-> FALSE]
    /\ cancel = NoCancel
    /\ runs = 1
    /\ marked = NoMarks(DefaultData)

\* the include filter of download_repository
ApplyInclude ==
    /\ flt.at = "include"
    /\ flt' = [flt EXCEPT !.all_files = IncludeFilter(@, flt.file_patterns),
                          !.at = "exclude"]
    /\ UNCHANGED <<data, disk, stop, pc, ret, wfile, attempt, slept, wlocal,
                   tmp, run, queue, fut, yielded, outcome, cancel, runs, marked>>

\* the exclude filter of download_repository
ApplyExclude ==
    /\ flt.at = "exclude"
    /\ flt' = [flt EXCEPT !.all_files = ExcludeFilter(@, flt.ignore_patterns),
                          !.at = "done"]
    /\ UNCHANGED <<data, disk, stop, pc, ret, wfile, attempt, slept, wlocal,
                   tmp, run, queue, fut, yielded, outcome, cancel, runs, marked>>

NextFilter == ApplyInclude \/ ApplyExclude

SpecFilter == InitFilter /\ [][NextFilter]_vars

(* ---------------- properties ---------------- *)

Completed == Range(data.completed_files)
Failed == Range(data.failed_files)
RunEnded == pc[Main] = "idle" /\ outcome.kind = "dispatched"

RECURSIVE SumSize(_)
SumSize(S) == IF S = {} THEN 0
              ELSE LET f == CHOOSE x \in S : TRUE IN Size(f) + SumSize(S \ {f})

\* C1: no path is in both completed and failed, in every reachable ledger
\* state and across runs that reuse the progress file.
C1_Disjoint == Completed \cap Failed = {}

\* C2: when mark_file_completed has updated the ledger for a path (it is
\* at or in its save_progress), the path is in completed and not in failed.
C2_CompletedNotFailed ==
    \A w \in Workers :
        (pc[w] \in {"sv_open", "sv_w1", "sv_w2"} /\ ret[w] = "ret_true")
            => (wfile[w] \in Completed /\ wfile[w] \notin Failed)

\* C3: a run that got its file list and reached the worker pool reports
\* success iff the failed set is empty when the run has ended.
C3_SuccessIffNoFailed == RunEnded => (outcome.ok <=> Failed = {})

C3_Witness ==
    /\ RunEnded
    /\ ~outcome.ok
    /\ Completed # {}
    /\ Failed # {}

\* C4: when a run has ended, completed holds every path whose fetch
\* returned success and the cumulative size is the size at the start of
\* the run plus the sizes passed to the mark_file_completed calls.
C4_NoLostUpdate ==
    RunEnded =>
        LET fetched == {f \in Files : fut[f] = "true"}
        IN /\ fetched \subseteq Completed
           /\ data.downloaded = run.base + SumSize(fetched)

\* C5: at every point of a run the progress file is absent or one complete
\* document.
C5_FileParseable == pc[Main] # "idle" => (~disk.exists \/ DiskComplete(disk))

\* C6: a run cancelled while some remaining file was not yet completed
\* submits nothing after the flag was set, reports failure, and keeps every
\* ledger entry recorded before the flag was set.
C6_CancelReportsFailure ==
    (RunEnded /\ cancel.set /\ Range(run.remaining) \ cancel.completed # {})
        => /\ Submitted = cancel.submitted
           /\ ~outcome.ok
           /\ cancel.completed \subseteq Completed
           /\ cancel.failed \subseteq Failed

\* C7 as claimed: a run cancelled when exactly the paths cancel.completed
\* were completed ends with exactly those paths in completed and every
\* other path of the run in neither completed nor failed.
C7_ExactlyK ==
    (RunEnded /\ cancel.set)
        => \A f \in Range(run.remaining) :
              IF f \in cancel.completed
              THEN f \in Completed
              ELSE f \notin Completed /\ f \notin Failed

\* C7 as amended: a cancelled run ends with the paths completed at the
\* time of the flag still in completed; any other path of the run is in
\* completed only if its fetch was past its flag check at that time (in a
\* transfer attempt or recording its result) or found a complete local
\* copy, and in failed only if it was in failed at that time or its fetch
\* was past its flag check.
C7_CancelKeepsOnlyInFlight ==
    (RunEnded /\ cancel.set)
        => /\ cancel.completed \subseteq Completed
           /\ \A f \in Range(run.remaining) \ cancel.completed :
                /\ f \in Completed => f \in cancel.inflight \cup run.skipped
                /\ f \in Failed => f \in cancel.failed \cup cancel.inflight

C7_Witness ==
    /\ RunEnded
    /\ cancel.set
    /\ Len(run.remaining) = 2
    /\ Cardinality(cancel.completed) = 1
    /\ Completed = cancel.completed
    /\ Failed = {}

\* C8: a transfer attempt starts only from the flag check with the flag
\* clear; a fetch whose flag check finds the flag set ends with result
\* False, starts no transfer and leaves failed as it is.
C8_CheckedBeforeAttempt ==
    [][\A w \in Workers :
          /\ (pc'[w] = "xfer" /\ pc[w] # "xfer") => (pc[w] = "check" /\ ~stop)
          /\ (pc[w] = "check" /\ stop /\ pc'[w] # "check" /\ pc'[Main] # "idle")
                => /\ pc'[w] = "idle"
                   /\ fut'[wfile[w]] = "false"
                   /\ data'.failed_files = data.failed_files]_vars

C8_Witness ==
    /\ stop
    /\ \E f \in Files : fut[f] = "false" /\ f \notin Failed
    /\ \E w \in Workers : pc[w] = "check" /\ attempt[w] = 2

Pos(L, x) == CHOOSE i \in 1..Len(L) : L[i] = x

\* C9: the remaining work of a run is the subsequence of its file list
\* whose paths are not in completed, in the order of the list, whatever is
\* in failed; the run returns early only when that subsequence is empty.
C9_RemainingIsListMinusCompleted ==
    /\ (pc[Main] = "submit" /\ run.idx = 1)
          => /\ Range(run.remaining) = Range(run.all_files) \ Completed
             /\ Cardinality(Range(run.remaining)) = Len(run.remaining)
             /\ \A i, j \in 1..Len(run.remaining) :
                   i < j => Pos(run.all_files, run.remaining[i])
                              < Pos(run.all_files, run.remaining[j])
    /\ (pc[Main] = "idle" /\ outcome.kind = "noop")
          => Range(run.all_files) \subseteq Completed

C9_Witness ==
    /\ pc[Main] = "submit"
    /\ run.idx = 1
    /\ Len(run.all_files) = 2
    /\ Len(run.remaining) = 1
    /\ run.remaining[1] \in Failed
    /\ Completed # {}

IsSubseq(s, t) ==
    /\ Range(s) \subseteq Range(t)
    /\ Cardinality(Range(s)) = Len(s)
    /\ \A i, j \in 1..Len(s) : i < j => Pos(t, s[i]) < Pos(t, s[j])

\* C10: reconciling a ledger of the same repository whose stored file list
\* differs from the given one stores the given list and keeps in completed
\* and in failed exactly the prior entries whose path is in the given list.
C10_ReconcileChangedList ==
    [][(pc[Main] = "idle" /\ pc'[Main] # "idle")
          => LET old == LoadProgress(disk)
                 given == Range(run'.all_files)
             IN (old.repo_id = run'.repo /\ old.has_all
                    /\ Range(old.all_files) # given)
                   => /\ data'.all_files = run'.all_files
                      /\ Range(data'.completed_files) = Range(old.completed_files) \cap given
                      /\ Range(data'.failed_files) = Range(old.failed_files) \cap given
                      /\ IsSubseq(data'.completed_files, old.completed_files)
                      /\ IsSubseq(data'.failed_files, old.failed_files)]_vars

\* a reconciliation that dropped a completed path and kept another one
C10_Witness ==
    /\ pc[Main] = "sv_w1"
    /\ ret[Main] = "remaining"
    /\ Completed # {}
    /\ \E f \in Files : /\ data.details[f] = "completed"
                        /\ f \notin Range(data.all_files)
                        /\ f \notin Completed

\* a step in which a new process reconciles the stored ledger with its list
Reconciles == pc[Main] = "idle" /\ pc'[Main] # "idle"

\* C11: init_task installs a new task (completed, failed and the per-file
\* detail empty, downloaded size 0, all_files the given list, a new start
\* time) exactly when there is no stored ledger, the stored repo_id differs
\* from the given one, or the stored ledger has no all_files field; in every
\* other case the start time, the downloaded size, the per-file detail and
\* the completed and failed entries of listed files stay as stored.
C11_ResetIffNewTask ==
    [][Reconciles
          => LET old == LoadProgress(disk)
                 given == Range(run'.all_files)
             IN IF ~DiskComplete(disk) \/ old.repo_id # run'.repo \/ ~old.has_all
                THEN /\ data'.repo_id = run'.repo
                     /\ data'.completed_files = <<>>
                     /\ data'.failed_files = <<>>
                     /\ data'.details = [f \in Files |-> "none"]
                     /\ data'.error = [f \in Files |-> NoError]
                     /\ data'.downloaded = 0
                     /\ data'.has_all /\ data'.all_files = run'.all_files
                     /\ data'.start_time = runs'
                     /\ data'.start_time # old.start_time
                ELSE /\ data'.start_time = old.start_time
                     /\ data'.downloaded = old.downloaded
                     /\ data'.details = old.details
                     /\ data'.error = old.error
                     /\ Range(data'.completed_files) = Range(old.completed_files) \cap given
                     /\ Range(data'.failed_files) = Range(old.failed_files) \cap given]_vars

\* the second process has installed a new task over a stored ledger, and
\* the file holds nothing of the old one any more
C11_Witness ==
    /\ pc[Main] = "sv_w1"
    /\ ret[Main] = "remaining"
    /\ runs = 2
    /\ data.start_time = 2
    /\ data.repo_id = "r1"
    /\ Completed = {}
    /\ data.downloaded = 0

\* C12: init_task called again with the same repo_id and the same list, at a
\* later time, leaves the ledger as the first call left it.
C12_ReconcileIdempotent ==
    [][Reconciles
          => InitTask(data', run'.repo, run'.all_files, runs' + 1) = data']_vars

\* a reconciliation of the second process that kept the task of the first
\* and dropped an entry whose file is no longer listed
C12_Witness ==
    /\ pc[Main] = "sv_w1"
    /\ ret[Main] = "remaining"
    /\ runs = 2
    /\ data.start_time = 1
    /\ \E f \in Files : data.details[f] # "none" /\ f \notin Range(data.all_files)
    /\ Failed # {}

\* C13: once init_task has run, in every state of this and of any later
\* process every path in completed_files or failed_files is in the all_files
\* list stored by the last init_task.
C13_EntriesAreListed ==
    data.has_all => (Completed \cup Failed) \subseteq Range(data.all_files)

\* the second process works on a shorter list than the first, which had
\* recorded the dropped file, and has recorded a failure itself
C13_Witness ==
    /\ runs = 2
    /\ pc[Main] = "collect"
    /\ data.start_time = 1
    /\ Len(data.all_files) = 1
    /\ Failed = Range(data.all_files)
    /\ \E f \in Files \ Range(data.all_files) : data.details[f] # "none"

Occurrences(s, x) == Cardinality({i \in 1..Len(s) : s[i] = x})

\* C14: after one or more mark_file_completed calls for a path, with any
\* mark_file_failed, set_current_file and mark_file_completed calls for
\* other paths in between, the path is in completed_files exactly once and
\* the downloaded size has grown by the size of each path that such a call
\* added, counted once.
C14_MarkedOnce ==
    /\ \A p \in Files :
          marked.calls[p] >= 1 => Occurrences(data.completed_files, p) = 1
    /\ data.downloaded
          = run.base + SumSize({p \in Files : /\ marked.calls[p] >= 1
                                              /\ p \notin marked.before})

\* two calls for "a", which was not completed before, and calls for "b"
C14_Witness ==
    /\ marked.calls["a"] = 2
    /\ "a" \notin marked.before
    /\ marked.calls["b"] >= 1
    /\ "b" \in Failed
    /\ data.current_file = "b"
    /\ data.downloaded = run.base + 1

\* the waits a fetch has made when it starts attempt n (attempts from 0)
Backoff(n) == [i \in 1..n |-> 2^(i - 1)]

\* C15: a fetch starts attempt i only after the waits 2^0 .. 2^(i-1); a
\* failed attempt other than the last waits 2^i and goes on to the next
\* one; the failure of attempt max_retries - 1 is followed by no wait and by
\* mark_file_failed, after which the path is in failed_files with the
\* message of that attempt and the fetch returns False; no attempt follows
\* a successful one.
C15_RetryThenRecordLastError ==
    [][\A w \in Workers :
          /\ (pc[w] = "check" /\ pc'[w] = "xfer")
                => /\ attempt[w] < max_retries
                   /\ slept[w] = Backoff(attempt[w])
          /\ (pc[w] = "xfer" /\ pc'[w] = "check")
                => /\ attempt[w] < max_retries - 1
                   /\ attempt'[w] = attempt[w] + 1
                   /\ slept'[w] = Append(slept[w], 2^(attempt[w]))
          /\ (pc[w] = "xfer" /\ pc'[w] = "mf")
                => /\ attempt[w] = max_retries - 1
                   /\ slept'[w] = Backoff(max_retries - 1)
          /\ (pc[w] = "mf" /\ pc'[w] = "sv_open")
                => /\ wfile[w] \in Range(data'.failed_files)
                   /\ data'.error[wfile[w]] = ErrorMsg(runs, max_retries - 1)
                   /\ ret'[w] = "ret_false"
          /\ (pc'[w] \in {"check", "xfer"} /\ pc[w] \notin {"check", "xfer"})
                => pc[w] = "idle"]_vars

\* C16: a fetch that found a local copy whose size equals the
\* content-length of the probe, zero included, goes straight to
\* mark_file_completed: it never enters the retry loop.
C16_LocalMatchSkips ==
    \A w \in Workers : wlocal[w] = "match" => pc[w] = "mc"

\* C17: a run whose list_repo_files call fails returns False, submits no
\* fetch and starts no thread, leaves the progress file as it was, and
\* holds in memory the ledger it loaded from that file.
C17_ListingFailureChangesNothing ==
    [][(pc[Main] = "idle" /\ runs' # runs /\ outcome'.kind = "listfail")
          => /\ ~outcome'.ok
             /\ disk' = disk
             /\ data' = LoadProgress(disk)
             /\ queue' = <<>>
             /\ \A f \in Files : fut'[f] = "none"
             /\ \A t \in Threads : pc'[t] = "idle"]_vars

\* a listing failure over a stored ledger with entries in both lists
C17_Witness ==
    /\ outcome.kind = "listfail"
    /\ DiskComplete(disk)
    /\ Completed # {}
    /\ Failed # {}
    /\ data = Parsed(disk)

\* pool threads that are running a fetch
Busy == {w \in Workers : pc[w] # "idle"}

\* C18: at every moment at most max_workers fetches are executing, every
\* executing fetch has its own file, and no file is fetched by two threads.
C18_AtMostWorkerCount ==
    /\ Cardinality(Busy) <= run.nw
    /\ \A w \in Busy : wfile[w] \in Files
    /\ \A v, w \in Busy : v # w => wfile[v] # wfile[w]

\* a run with one worker: a submitted file waits while the other is fetched
C18_Witness ==
    /\ run.nw = 1
    /\ Cardinality(Busy) = 1
    /\ queue # <<>>
    /\ \E w \in Busy : pc[w] = "xfer"

\* C20: when every file of the list is in completed_files after init_task,
\* the next step of the run is its return with True: nothing is submitted,
\* no pool thread runs and the ledger stays as it is, whatever failed_files
\* holds.
C20_NothingLeftIsSuccess ==
    [][(/\ pc[Main] = "remaining"
        /\ Range(run.all_files) \subseteq Completed
        /\ pc'[Main] # "remaining"
        /\ outcome'.kind # "crashed")
          => /\ pc'[Main] = "idle"
             /\ outcome' = [kind |-> "noop", ok |-> TRUE]
             /\ \A f \in Files : fut'[f] = "none"
             /\ queue' = <<>>
             /\ \A w \in Workers : pc'[w] = "idle"
             /\ data' = data]_vars

\* a run that returned at once although a listed file is in failed_files
C20_Witness ==
    /\ pc[Main] = "idle"
    /\ outcome.kind = "noop"
    /\ outcome.ok
    /\ Failed \cap Range(run.all_files) # {}
    /\ Submitted = {}

\* C19: the filtered list holds exactly the listed files that match an
\* include pattern (or there is no include list) and match no exclude
\* pattern (or there is no exclude list), in the order of the listing, and
\* filtering it again with the same patterns returns it unchanged.
C19_FilterKeepsExactlyMatching ==
    flt.at = "done"
        => LET inc == flt.file_patterns
               exc == flt.ignore_patterns
               Kept(f) ==
                   /\ inc = <<>> \/ \E i \in 1..Len(inc) : Match(f, inc[i])
                   /\ exc = <<>> \/ \A i \in 1..Len(exc) : ~Match(f, exc[i])
           IN /\ Range(flt.all_files) = {f \in Range(flt.listed) : Kept(f)}
              /\ IsSubseq(flt.all_files, flt.listed)
              /\ FilterFiles(flt.all_files, inc, exc) = flt.all_files

\* three listed files, of which the include list of two patterns dropped
\* one and the exclude list another
C19_Witness ==
    /\ flt.at = "done"
    /\ Len(flt.listed) = 3
    /\ Len(flt.file_patterns) = 2
    /\ flt.ignore_patterns # <<>>
    /\ Len(IncludeFilter(flt.listed, flt.file_patterns)) = 2
    /\ Len(flt.all_files) = 1

\* C21: when the write of save_progress fails, the thread still leaves the
\* ledger operation in the normal way (a fetch returns the result of its
\* operation, the main thread goes on where it was), self.data keeps the
\* mutation of the operation, and the queue and the other threads are as
\* they were.
C21_SaveFailureIsNotFatal ==
    [][\A t \in Threads :
          (/\ pc[t] \in {"sv_w1", "sv_w2"}
           /\ pc'[t] \notin {"sv_w1", "sv_w2"}
           /\ disk' = disk
           /\ pc'[Main] # "idle")
             => /\ data' = data
                /\ queue' = queue
                /\ stop' = stop
                /\ \A u \in Threads \ {t} : pc'[u] = pc[u]
                /\ t \in Workers
                      => /\ pc'[t] = "idle"
                         /\ ret[t] = "ret_true"
                               => /\ fut'[wfile[t]] = "true"
                                  /\ wfile[t] \in Range(data'.completed_files)
                         /\ ret[t] = "ret_false"
                               => /\ fut'[wfile[t]] = "false"
                                  /\ wfile[t] \in Range(data'.failed_files)
                /\ t = Main
                      => /\ pc'[Main] = ret[Main]
                         /\ ret[Main] = "remaining"
                               => data'.all_files = run.all_files
                         /\ ret[Main] = "collect"
                               => data'.current_file \in yielded]_vars

\* the save of mark_file_completed failed after the open, the path is
\* completed in memory only, and the thread is fetching the next file
C21_Witness ==
    /\ run.nw = 1
    /\ disk = Truncated
    /\ yielded = {}
    /\ \A t \in Threads : pc[t] \notin {"sv_open", "sv_w1", "sv_w2"}
    /\ \E f \in Files : fut[f] = "true" /\ f \in Completed
    /\ \E w \in Workers : pc[w] = "xfer"

\* C22: a fetch whose probe of an existing local copy failed stands at the
\* top of the retry loop before its first attempt, with nothing recorded
\* for its file and its result open; with the flag clear its next step is
\* the transfer attempt.
C22_ProbeFailureMeansTransfer ==
    [][\A w \in Workers :
          /\ (wlocal'[w] = "probefail" /\ wlocal[w] # "probefail")
                => /\ pc[w] = "idle"
                   /\ pc'[w] = "check"
                   /\ attempt'[w] = 0
                   /\ fut'[wfile'[w]] = "pending"
                   /\ data' = data
          /\ (/\ wlocal[w] = "probefail"
              /\ pc'[w] # pc[w]
              /\ ~stop
              /\ pc'[Main] # "idle")
                => /\ pc[w] = "check"
                   /\ pc'[w] = "xfer"
                   /\ attempt'[w] = 0
                   /\ fut'[wfile[w]] = "pending"
                   /\ data' = data]_vars

\* the probe for "a", which has a local copy, fails and the fetch waits at
\* the top of the retry loop
C22_Witness ==
    \E w \in Workers :
        /\ wlocal[w] = "probefail"
        /\ wfile[w] = "a"
        /\ pc[w] = "check"
        /\ ~stop

\* C23: a run whose remaining files were all submitted and all fetched
\* with result True returns True, and none of those paths is in
\* failed_files when it ends.
C23_AllFetchedIsSuccess ==
    (RunEnded /\ \A f \in Range(run.remaining) : fut[f] = "true")
        => /\ outcome.ok
           /\ Range(run.remaining) \cap Failed = {}

\* C25: when init_task drops paths of the stored list that are not in the
\* given one, the ledger it leaves has no file_details entry for a path
\* outside all_files, and its downloaded size is the sum of the sizes of
\* the paths in completed_files.
C25_DroppedPathsLeaveNoData ==
    [][Reconciles
          => LET old == LoadProgress(disk)
                 given == Range(run'.all_files)
             IN (/\ old.repo_id = run'.repo
                 /\ old.has_all
                 /\ Range(old.all_files) \ given # {})
                   => /\ \A f \in Files \ given : data'.details[f] = "none"
                      /\ data'.downloaded
                            = SumSize(Range(data'.completed_files))]_vars

\* C26: no step of a process other than its init_task removes or moves an
\* entry of completed_files (the list only gets longer at its end), and a
\* file is submitted to the pool only if it was not in completed_files
\* when init_task returned.
C26_CompletedOnlyGrows ==
    [][(runs' = runs)
          => /\ Len(data'.completed_files) >= Len(data.completed_files)
             /\ \A i \in 1..Len(data.completed_files) :
                   data'.completed_files[i] = data.completed_files[i]
             /\ \A f \in Files :
                   (fut[f] = "none" /\ fut'[f] # "none")
                      => f \notin marked.before]_vars

\* "a" was completed before the run; the fetch of "b" has failed and "a"
\* is still completed
C26_Witness ==
    /\ pc[Main] = "collect"
    /\ marked.before = {"a"}
    /\ fut = [f \in Files |-> IF f = "b" THEN "false" ELSE "none"]
    /\ "b" \in Failed
    /\ "a" \in Completed

====
